---- MODULE Spec2Model ----
(***************************************************************************)
(* Coordinated-behaviour detection of the analytics dashboard backend      *)
(* (src/app.py, get_coordinated_behavior): filter the corpus by the query, *)
(* sort by created_utc, vectorize, run the greedy windowed clustering      *)
(* pass, derive the author graph and the metrics, build the response.      *)
(*                                                                         *)
(* Numbers: similarities and thresholds are compared exactly, in tenths    *)
(* (a threshold of 0.7 is 7).  A document is the set of its words; its     *)
(* TF-IDF vector is that set restricted to the fitted vocabulary, all      *)
(* idf weights taken equal, so cosine(a,b) = |a \cap b| / sqrt(|a|*|b|)    *)
(* and  cosine + boost >= threshold  is decided on integers.  Bigrams and   *)
(* max_features are left out: neither changes which corpora have an empty  *)
(* vocabulary nor the order-dependent logic of the clustering pass.        *)
(*                                                                         *)
(* The variable  earlier  is an observer, not program state: it keeps one  *)
(* completed request with its response, so that two requests on the same   *)
(* corpus can be compared (SpecSeq).                                       *)
(*                                                                         *)
(* Frames: the global DataFrame is the object "data"; an operation of      *)
(* pandas returns either the frame it was given or a new one ("copy").     *)
(* data_columns are the columns of the global frame; a column assignment   *)
(* changes them only when its target is the global frame itself.           *)
(***************************************************************************)
EXTENDS Integers, Sequences, FiniteSets, TLC

(* ------------------------------ bounds -------------------------------- *)

\* largest number of posts of a loaded corpus
MaxPosts == 4

(* ------------------------- program constants -------------------------- *)

\* TfidfVectorizer(min_df=2): a term must occur in at least 2 documents
min_df == 2

\* similarity += 0.1 for a shared URL, and again for a shared hashtag (tenths)
LINK_BOOST == 1

\* pandas' missing timestamp; compares False with everything, sorts last
NaT == 0 - 1

\* TfidfVectorizer(stop_words='english'): the words that never enter the vocabulary
STOP_WORDS == {"the"}

\* total order of author names used by sorted([source, target])
AuthorRank ==
    [a \in {"A", "B", "C", "D"} |->
        CASE a = "A" -> 1 [] a = "B" -> 2 [] a = "C" -> 3 [] a = "D" -> 4]

(* ------------------------------ inputs -------------------------------- *)

\* one row of the corpus: author, created_utc, the words of title + selftext,
\* whether selftext is missing (NaN), the URLs and the hashtags of selftext
Post(a, t, w, m, u, h) ==
    [author |-> a, created_utc |-> t, words |-> w, selftext_missing |-> m,
     urls |-> u, hashtags |-> h]

\* the rows a corpus is built from
PostKinds ==
    { Post("A", 0, {"b"}, FALSE, {}, {}),
      Post("B", 1, {"b", "c"}, FALSE, {"u1", "u2"}, {"#h"}),
      Post("A", 2, {"b"}, FALSE, {"u1"}, {"#h"}),
      Post("B", 2, {"c"}, FALSE, {"u2"}, {}),
      Post("B", 2, {"b"}, FALSE, {}, {}),
      Post("C", 1, {"b", "the"}, TRUE, {}, {}),
      Post("C", 0, {"the"}, FALSE, {}, {"#h"}) }

\* data = None: load_dataset has not run or has failed (a loaded corpus has
\* at least one row)
None == <<>>

\* the columns of the corpus right after load_dataset
LoadedColumns == {"author", "created_utc", "title", "selftext", "id", "permalink"}

\* every loaded corpus of at most MaxPosts rows; json_normalize gives it a
\* RangeIndex, and load_dataset leaves data unset when the file has no row
Corpora == UNION { [1..n -> PostKinds] : n \in 1..MaxPosts }

\* request.args: query, time_window (seconds), similarity_threshold (tenths)
Queries == {"", "c", "zzz"}
Windows == {0, 1}
Thresholds == {7, 8}

\* order in which sort_values('created_utc') leaves rows of equal timestamp:
\* the default kind is quicksort, which is not a stable sort
TieBreaks == {"ingestion", "reverse"}

NoResponse == [status |-> 0]

\* the corpora of the runs that compare two requests
SeqKinds ==
    { Post("A", 0, {"b"}, FALSE, {}, {}),
      Post("B", 1, {"b", "c"}, FALSE, {"u1", "u2"}, {"#h"}),
      Post("B", 2, {"c"}, FALSE, {"u2"}, {}),
      Post("C", 1, {"b", "the"}, TRUE, {}, {}) }
SeqCorpora == UNION { [1..n -> SeqKinds] : n \in 1..MaxPosts }

\* no load_model_with_cache call observed yet (hits: the names returned from
\* the cache since the last insertion)
NoCall == [name |-> "", model |-> 0, loads |-> 0, raised |-> FALSE,
           evicted |-> "", hits |-> {}, evicted_hit |-> FALSE]

\* no pair scored
NoScore == [cosine |-> <<0, 0>>, links |-> FALSE, hashtags |-> FALSE,
            threshold |-> <<0, 0>>, state |-> "none", grouped |-> FALSE]

NoRequest == [status |-> 0]

\* the corpora and the second handler's request.args of the runs with two
\* requests in flight
ConcKinds ==
    { Post("B", 1, {"b", "c"}, FALSE, {"u1", "u2"}, {"#h"}),
      Post("B", 2, {"c"}, FALSE, {"u2"}, {}),
      Post("C", 1, {"b", "the"}, TRUE, {}, {}) }
ConcCorpora == UNION { [1..n -> ConcKinds] : n \in 1..MaxPosts }
OtherQueries == {"", "zzz"}
OtherWindows == {1}
OtherThresholds == {7}

\* the rows of the reference scenario: one text posted by four authors at
\* t, t + 10, t + 20 and t + 7200 seconds (t = 0); the same text with a
\* missing selftext and with a missing created_utc
RefText == {"breaking", "news", "update"}
RefKinds ==
    { Post("A", 0, RefText, FALSE, {}, {}),
      Post("B", 10, RefText, FALSE, {}, {}),
      Post("C", 20, RefText, FALSE, {}, {}),
      Post("D", 7200, RefText, FALSE, {}, {}),
      Post("D", 20, RefText, TRUE, {}, {}),
      Post("B", NaT, RefText, FALSE, {}, {}) }
RefCorpora == UNION { [1..n -> RefKinds] : n \in 1..MaxPosts }

\* request.args of the runs on these corpora: int() and float() accept any
\* number, negative ones included
RefQueries == {"", "zzz"}
RefWindows == {0 - 1, 10, 3600}
RefThresholds == {0 - 1, 9}

VARIABLES
    data,                  \* the global corpus (a sequence of rows)
    data_columns,          \* the columns of the global corpus
    tieBreak,              \* how this build's quicksort orders equal keys
    pc,                    \* position of the request handler
    query,                 \* request.args 'query'
    time_window,           \* request.args 'time_window'
    similarity_threshold,  \* request.args 'similarity_threshold'
    sorted_data,           \* index labels of the filtered rows, sorted
    pos,                   \* position of the anchor loop in sorted_data
    processed_indices,     \* the claimed set
    coordinated_groups,    \* the groups emitted so far
    raised,                \* exception caught by the try block ("" if none)
    response,              \* what the handler returned
    other,                 \* a second request handler running at the same time
    earlier,               \* observer: one completed earlier request
    model_cache,           \* the model cache, entries in insertion order
    cache_call,            \* observer: the last load_model_with_cache call
    scored                 \* one candidate pair scored in floating point

\* the state outside the coordination handler
helpers == <<model_cache, cache_call, scored>>

vars == <<data, data_columns, tieBreak, pc, query, time_window,
          similarity_threshold, sorted_data, pos, processed_indices,
          coordinated_groups, raised, response, other, earlier,
          model_cache, cache_call, scored>>

(* --------------------------- filter and sort --------------------------- *)

\* mutant: the corpus is never found missing
NoDataNever(d) == FALSE

\* data is None
NoData(d) == d = None

\* the frame filtered_data names: data itself for an empty query, else the
\* new frame that boolean indexing returns
FrameOfFilter(q) == IF q = "" THEN "data" ELSE "copy"

\* mutant: the rows are sorted in place
FrameOfSortInPlace(frame) == frame

\* the frame sort_values('created_utc') returns: always a new one
FrameOfSort(frame) == "copy"

\* the columns of the global frame after  frame[c] = ...
SetColumn(cols, frame, c) == IF frame = "data" THEN cols \cup {c} ELSE cols

\* str.contains(query) on selftext or title; an empty query keeps data itself
Matches(row, q) == q = "" \/ q \in row.words

filtered_data(d, q) == { i \in DOMAIN d : Matches(d[i], q) }

\* mutant: the rows are sorted by descending timestamp
SortsBeforeDescending(d, tb, i, j) ==
    LET ti == d[i].created_utc
        tj == d[j].created_utc
    IN  IF ti = NaT \/ tj = NaT
        THEN IF ti = NaT /\ tj = NaT THEN i < j ELSE tj = NaT
        ELSE IF ti # tj THEN ti > tj
        ELSE IF tb = "ingestion" THEN i < j ELSE j < i

\* row i comes before row j in sorted_data
SortsBefore(d, tb, i, j) ==
    LET ti == d[i].created_utc
        tj == d[j].created_utc
    IN  IF ti = NaT \/ tj = NaT
        THEN IF ti = NaT /\ tj = NaT THEN i < j ELSE tj = NaT
        ELSE IF ti # tj THEN ti < tj
        ELSE IF tb = "ingestion" THEN i < j ELSE j < i

RECURSIVE SortValues(_, _, _)
SortValues(d, tb, S) ==
    IF S = {} THEN <<>>
    ELSE LET first == CHOOSE i \in S : \A j \in S \ {i} : SortsBefore(d, tb, i, j)
         IN  <<first>> \o SortValues(d, tb, S \ {first})

(* ---------------------------- vectorization ---------------------------- *)

\* number of documents of S containing term
DocFreq(d, S, term) == Cardinality({ i \in S : term \in d[i].words })

\* the vocabulary fitted on the documents of S
Vocabulary(d, S) ==
    { term \in UNION { d[i].words : i \in S } :
        term \notin STOP_WORDS /\ DocFreq(d, S, term) >= min_df }

\* fit_transform raises ValueError when no term remains
FitFails(d, S) == Vocabulary(d, S) = {}

\* row of tfidf_matrix: the document restricted to the vocabulary
Vector(d, S, i) == d[i].words \cap Vocabulary(d, S)

(* ------------------------------ similarity ----------------------------- *)

shared_links(d, i, j) == d[i].urls \cap d[j].urls # {}
shared_hashtags(d, i, j) == d[i].hashtags \cap d[j].hashtags # {}

\* the boosts added to the cosine similarity (tenths)
Boost(d, i, j) ==
    (IF shared_links(d, i, j) THEN LINK_BOOST ELSE 0)
    + (IF shared_hashtags(d, i, j) THEN LINK_BOOST ELSE 0)

\* cosine(v1, v2) >= r/10, for sets of equally weighted terms
CosineAtLeast(v1, v2, r) ==
    \/ r <= 0
    \/ /\ v1 # {} /\ v2 # {}
       /\ 100 * Cardinality(v1 \cap v2) * Cardinality(v1 \cap v2)
            >= r * r * Cardinality(v1) * Cardinality(v2)

\* mutant: similarity <= similarity_threshold
SimilarAtMost(d, S, i, j, thr) ==
    LET v1 == Vector(d, S, i)
        v2 == Vector(d, S, j)
        r == thr - Boost(d, i, j)
    IN  /\ r >= 0
        /\ 100 * Cardinality(v1 \cap v2) * Cardinality(v1 \cap v2)
             <= r * r * Cardinality(v1) * Cardinality(v2)

\* similarity >= similarity_threshold, similarity being cosine plus boosts
Similar(d, S, i, j, thr) ==
    CosineAtLeast(Vector(d, S, i), Vector(d, S, j), thr - Boost(d, i, j))

(* ------------------------------ clustering ----------------------------- *)

\* mutant: the window has no upper limit
InWindowNoLimit(d, i, j, w) ==
    /\ d[i].created_utc # NaT /\ d[j].created_utc # NaT
    /\ d[j].created_utc >= d[i].created_utc

\* mutant: the window has no lower limit
InWindowNoLower(d, i, j, w) ==
    /\ d[i].created_utc # NaT /\ d[j].created_utc # NaT
    /\ d[j].created_utc <= d[i].created_utc + w

\* mutant: a missing timestamp is compared as the number that stands for it
InWindowNaTCompares(d, i, j, w) ==
    /\ d[j].created_utc <= d[i].created_utc + w
    /\ d[j].created_utc >= d[i].created_utc

\* window_posts of anchor i: rows with created_utc in [t, t + time_window],
\* in sorted order (a comparison with NaT is False)
InWindow(d, i, j, w) ==
    /\ d[i].created_utc # NaT /\ d[j].created_utc # NaT
    /\ d[j].created_utc <= d[i].created_utc + w
    /\ d[j].created_utc >= d[i].created_utc

\* mutant: every sorted row is a candidate, whatever its timestamp
window_posts_unfiltered(d, sd, i, w) == sd

window_posts(d, sd, i, w) == SelectSeq(sd, LAMBDA j : InWindow(d, i, j, w))

\* mutant: the claimed set is never consulted
ClaimedNever(i, proc) == FALSE

\* i in processed_indices
Claimed(i, proc) == i \in proc

\* building the dict of one post: len(selftext or '') raises TypeError on NaN
PostDictRaises(d, i) == d[i].selftext_missing

\* the inner loop over window_posts, from candidate number k on
RECURSIVE InnerLoop(_, _, _, _, _, _, _, _)
InnerLoop(d, S, i, cands, k, thr, group, proc) ==
    IF k > Len(cands) THEN [group |-> group, processed |-> proc, raised |-> FALSE]
    ELSE LET j == cands[k]
         IN  IF i = j \/ Claimed(j, proc)
             THEN InnerLoop(d, S, i, cands, k + 1, thr, group, proc)
             ELSE IF Similar(d, S, i, j, thr)
             THEN IF PostDictRaises(d, j)
                  THEN [group |-> group, processed |-> proc, raised |-> TRUE]
                  ELSE InnerLoop(d, S, i, cands, k + 1, thr,
                                 Append(group, j), proc \cup {j})
             ELSE InnerLoop(d, S, i, cands, k + 1, thr, group, proc)

SeqToSet(s) == { s[k] : k \in DOMAIN s }

MaxOf(S) == CHOOSE x \in S : \A y \in S : y <= x
MinOf(S) == CHOOSE x \in S : \A y \in S : x <= y

\* mutant: the group ids are counted from 1
GroupMetadataFromOne(d, groups, group) ==
    LET times == { d[group[k]].created_utc : k \in DOMAIN group }
        anchor == group[1]
    IN  [group_id |-> Len(groups) + 1,
         size |-> Len(group),
         time_span |-> MaxOf(times) - MinOf(times),
         unique_authors |-> Cardinality({ d[group[k]].author : k \in DOMAIN group }),
         shared_links_count |->
             Cardinality({ k \in 2..Len(group) : shared_links(d, anchor, group[k]) }),
         shared_hashtags_count |->
             Cardinality({ k \in 2..Len(group) : shared_hashtags(d, anchor, group[k]) }),
         posts |-> group]

\* group_metadata of an emitted group; posts are index labels, anchor first
GroupMetadata(d, groups, group) ==
    LET times == { d[group[k]].created_utc : k \in DOMAIN group }
        anchor == group[1]
    IN  [group_id |-> Len(groups),
         size |-> Len(group),
         time_span |-> MaxOf(times) - MinOf(times),
         unique_authors |-> Cardinality({ d[group[k]].author : k \in DOMAIN group }),
         shared_links_count |->
             Cardinality({ k \in 2..Len(group) : shared_links(d, anchor, group[k]) }),
         shared_hashtags_count |->
             Cardinality({ k \in 2..Len(group) : shared_hashtags(d, anchor, group[k]) }),
         posts |-> group]

\* mutant: the anchor is claimed whether or not its group is emitted
AnchorIterationClaimsAnchor(d, sd, i, w, thr, groups, proc) ==
    IF PostDictRaises(d, i)
    THEN [groups |-> groups, processed |-> proc, raised |-> TRUE]
    ELSE LET r == InnerLoop(d, SeqToSet(sd), i, window_posts(d, sd, i, w), 1,
                            thr, <<i>>, proc)
         IN  IF r.raised
             THEN [groups |-> groups, processed |-> r.processed, raised |-> TRUE]
             ELSE IF Len(r.group) > 1
             THEN [groups |-> Append(groups, GroupMetadata(d, groups, r.group)),
                   processed |-> r.processed \cup {i}, raised |-> FALSE]
             ELSE [groups |-> groups, processed |-> r.processed \cup {i},
                   raised |-> FALSE]

\* one iteration of the anchor loop for the unclaimed row i
AnchorIteration(d, sd, i, w, thr, groups, proc) ==
    IF PostDictRaises(d, i)
    THEN [groups |-> groups, processed |-> proc, raised |-> TRUE]
    ELSE LET r == InnerLoop(d, SeqToSet(sd), i, window_posts(d, sd, i, w), 1,
                            thr, <<i>>, proc)
         IN  IF r.raised
             THEN [groups |-> groups, processed |-> r.processed, raised |-> TRUE]
             ELSE IF Len(r.group) > 1
             THEN [groups |-> Append(groups, GroupMetadata(d, groups, r.group)),
                   processed |-> r.processed \cup {i}, raised |-> FALSE]
             ELSE [groups |-> groups, processed |-> r.processed, raised |-> FALSE]

(* ------------------------------ author graph --------------------------- *)

\* the index pairs (i, j) with i < j <= n, in the order of the two for loops
RECURSIVE IndexPairs(_, _, _)
IndexPairs(i, j, n) ==
    IF i > n THEN <<>>
    ELSE IF j > n THEN IndexPairs(i + 1, i + 2, n)
    ELSE <<<<i, j>>>> \o IndexPairs(i, j + 1, n)

\* the links one group appends to author_links: one per pair of posts of
\* different authors
\* mutant: a link for every pair of posts, also of one author
GroupLinksSelfLoops(d, g) ==
    LET authors == [k \in DOMAIN g.posts |-> d[g.posts[k]].author]
        pairs == IndexPairs(1, 2, Len(authors))
    IN  [k \in DOMAIN pairs |->
            [source |-> authors[pairs[k][1]], target |-> authors[pairs[k][2]],
             group_id |-> g.group_id, weight |-> 1]]

GroupLinks(d, g) ==
    LET authors == [k \in DOMAIN g.posts |-> d[g.posts[k]].author]
        pairs == SelectSeq(IndexPairs(1, 2, Len(authors)),
                           LAMBDA p : authors[p[1]] # authors[p[2]])
    IN  [k \in DOMAIN pairs |->
            [source |-> authors[pairs[k][1]], target |-> authors[pairs[k][2]],
             group_id |-> g.group_id, weight |-> 1]]

RECURSIVE author_links(_, _)
author_links(d, groups) ==
    IF groups = <<>> THEN <<>>
    ELSE GroupLinks(d, Head(groups)) \o author_links(d, Tail(groups))

\* mutant: only the authors that are the source or the target of a link
author_nodes_linked(d, groups) ==
    { author_links(d, groups)[k].source : k \in DOMAIN author_links(d, groups) } \cup
    { author_links(d, groups)[k].target : k \in DOMAIN author_links(d, groups) }

\* author_nodes: every author of every post of every group
author_nodes(d, groups) ==
    UNION { { d[groups[g].posts[k]].author : k \in DOMAIN groups[g].posts } :
            g \in DOMAIN groups }

\* mutant: key = (source, target), without sorted()
UnsortedKey(source, target) == <<source, target>>

\* key = tuple(sorted([source, target]))
SortedKey(source, target) ==
    IF AuthorRank[source] <= AuthorRank[target]
    THEN <<source, target>> ELSE <<target, source>>

\* mutant: link_weights[key] = weight, an assignment instead of +=
RECURSIVE link_weights_assign(_, _)
link_weights_assign(links, acc) ==
    IF links = <<>> THEN acc
    ELSE LET link == Head(links)
             key == SortedKey(link.source, link.target)
             at == { k \in DOMAIN acc : acc[k].key = key }
         IN  IF at = {}
             THEN link_weights_assign(Tail(links),
                                      Append(acc, [key |-> key, weight |-> link.weight]))
             ELSE link_weights_assign(Tail(links),
                                      [k \in DOMAIN acc |->
                                         IF k \in at
                                         THEN [key |-> key, weight |-> link.weight]
                                         ELSE acc[k]])

\* link_weights[key] += weight, the dict keeping the order of first insertion
RECURSIVE link_weights(_, _)
link_weights(links, acc) ==
    IF links = <<>> THEN acc
    ELSE LET link == Head(links)
             key == SortedKey(link.source, link.target)
             at == { k \in DOMAIN acc : acc[k].key = key }
         IN  IF at = {}
             THEN link_weights(Tail(links),
                               Append(acc, [key |-> key, weight |-> link.weight]))
             ELSE link_weights(Tail(links),
                               [k \in DOMAIN acc |->
                                  IF k \in at
                                  THEN [key |-> key, weight |-> acc[k].weight + link.weight]
                                  ELSE acc[k]])

\* the final weighted links
unique_links(d, groups) ==
    LET lw == link_weights(author_links(d, groups), <<>>)
    IN  [k \in DOMAIN lw |->
            [source |-> lw[k].key[1], target |-> lw[k].key[2], weight |-> lw[k].weight]]

\* the nodes with their metadata
Nodes(d, filt, groups) ==
    { [id |-> a,
       posts_count |-> Cardinality({ i \in filt : d[i].author = a }),
       coordinated_groups_count |->
           Cardinality({ g \in DOMAIN groups :
                           \E k \in DOMAIN groups[g].posts :
                               d[groups[g].posts[k]].author = a })] :
      a \in author_nodes(d, groups) }

\* filtered_data['author'].nunique()
NUnique(d, filt) == Cardinality({ d[i].author : i \in filt })

RECURSIVE SumSizes(_)
SumSizes(groups) ==
    IF groups = <<>> THEN 0 ELSE Head(groups).size + SumSizes(Tail(groups))

\* mutant: the density of a directed graph, E / (N * (N - 1))
network_metrics_directed(d, filt, groups, w, thr) ==
    LET n == Cardinality(author_nodes(d, groups))
        e == Len(unique_links(d, groups))
    IN  [total_groups |-> Len(groups),
         total_authors |-> n,
         total_connections |-> e,
         density |-> IF n > 1 THEN <<e, n * (n - 1)>> ELSE <<0, 1>>,
         avg_group_size |->
             IF groups # <<>> THEN <<SumSizes(groups), Len(groups)>> ELSE <<0, 1>>,
         authors_involved_percentage |-> <<100 * n, NUnique(d, filt)>>,
         time_window_seconds |-> w,
         similarity_threshold |-> thr]

\* network_metrics; a quotient n/m is kept as the pair <<n, m>>
network_metrics(d, filt, groups, w, thr) ==
    LET n == Cardinality(author_nodes(d, groups))
        e == Len(unique_links(d, groups))
    IN  [total_groups |-> Len(groups),
         total_authors |-> n,
         total_connections |-> e,
         density |-> IF n > 1 THEN <<2 * e, n * (n - 1)>> ELSE <<0, 1>>,
         avg_group_size |->
             IF groups # <<>> THEN <<SumSizes(groups), Len(groups)>> ELSE <<0, 1>>,
         authors_involved_percentage |-> <<100 * n, NUnique(d, filt)>>,
         time_window_seconds |-> w,
         similarity_threshold |-> thr]

\* len(author_nodes) / nunique() raises ZeroDivisionError when no row is left
MetricsRaise(d, filt) == NUnique(d, filt) = 0

\* the JSON body returned with status 200
OkResponse(d, filt, groups, w, thr) ==
    [status |-> 200,
     keys |-> {"network", "groups", "metrics"},
     nodes |-> Nodes(d, filt, groups),
     links |-> unique_links(d, groups),
     groups |-> groups,
     metrics |-> network_metrics(d, filt, groups, w, thr)]

\* an exception leaving the handler: the server answers 500
ErrorResponse == [status |-> 500, keys |-> {}]

\* jsonify({'error': 'No data loaded'}), 400
NoDataResponse == [status |-> 400, keys |-> {"error"}]

\* a handler that has not been called
IdleHandler ==
    [pc |-> "idle", query |-> "", time_window |-> 0, similarity_threshold |-> 0,
     sorted_data |-> <<>>, pos |-> 1, processed_indices |-> {},
     coordinated_groups |-> <<>>, raised |-> "", response |-> NoResponse]

(* ------------------------------- actions ------------------------------- *)

\* the state when the server starts to serve requests: load_dataset has
\* loaded one of the corpora, or has failed and left data unset
InitHandlers(corpora) ==
    /\ data \in corpora \cup {None}
    /\ data_columns = LoadedColumns
    /\ tieBreak \in TieBreaks
    /\ pc = "idle"
    /\ query = ""
    /\ time_window = 0
    /\ similarity_threshold = 0
    /\ sorted_data = <<>>
    /\ pos = 1
    /\ processed_indices = {}
    /\ coordinated_groups = <<>>
    /\ raised = ""
    /\ response = NoResponse
    /\ other = IdleHandler
    /\ earlier = NoRequest

InitOn(corpora) ==
    /\ InitHandlers(corpora)
    /\ model_cache = <<>>
    /\ cache_call = NoCall
    /\ scored = NoScore

Init == InitOn(Corpora)

\* mutant: the groups and the claimed set outlive the request
StartQueryKeepsState(q, w, thr) ==
    /\ pc \in {"idle", "done"}
    /\ ~NoData(data)
    /\ query' = q
    /\ time_window' = w
    /\ similarity_threshold' = thr
    /\ sorted_data' = SortValues(data, tieBreak, filtered_data(data, q))
    /\ coordinated_groups' = coordinated_groups
    /\ processed_indices' = processed_indices
    /\ pos' = 1
    /\ response' = NoResponse
    /\ IF FitFails(data, filtered_data(data, q))
       THEN raised' = "ValueError" /\ pc' = "graph"
       ELSE raised' = "" /\ pc' = "loop"
    /\ data_columns' = SetColumn(data_columns, FrameOfSort(FrameOfFilter(q)),
                                "analysis_text")
    /\ UNCHANGED <<helpers, data, tieBreak, other, earlier>>

\* mutant: fit_transform is called outside of the try block
StartQueryNoTry(q, w, thr) ==
    /\ pc \in {"idle", "done"}
    /\ ~NoData(data)
    /\ query' = q
    /\ time_window' = w
    /\ similarity_threshold' = thr
    /\ sorted_data' = SortValues(data, tieBreak, filtered_data(data, q))
    /\ coordinated_groups' = <<>>
    /\ processed_indices' = {}
    /\ pos' = 1
    /\ IF FitFails(data, filtered_data(data, q))
       THEN raised' = "ValueError" /\ pc' = "done" /\ response' = ErrorResponse
       ELSE raised' = "" /\ pc' = "loop" /\ response' = NoResponse
    /\ data_columns' = SetColumn(data_columns, FrameOfSort(FrameOfFilter(q)),
                                "analysis_text")
    /\ UNCHANGED <<helpers, data, tieBreak, other, earlier>>

\* a request arrives: lines 757-794 (arguments, filter, sort, fit_transform)
StartQuery(q, w, thr) ==
    /\ pc \in {"idle", "done"}
    /\ ~NoData(data)
    /\ query' = q
    /\ time_window' = w
    /\ similarity_threshold' = thr
    /\ sorted_data' = SortValues(data, tieBreak, filtered_data(data, q))
    /\ coordinated_groups' = <<>>
    /\ processed_indices' = {}
    /\ pos' = 1
    /\ response' = NoResponse
    /\ IF FitFails(data, filtered_data(data, q))
       THEN raised' = "ValueError" /\ pc' = "graph"
       ELSE raised' = "" /\ pc' = "loop"
    /\ data_columns' = SetColumn(data_columns, FrameOfSort(FrameOfFilter(q)),
                                "analysis_text")
    /\ UNCHANGED <<helpers, data, tieBreak, other, earlier>>

\* lines 757-758: a request arrives and there is no corpus
RejectNoData ==
    /\ pc \in {"idle", "done"}
    /\ NoData(data)
    /\ response' = NoDataResponse
    /\ pc' = "done"
    /\ UNCHANGED <<helpers, data, data_columns, tieBreak, other, query, time_window,
                   similarity_threshold, sorted_data, pos, processed_indices,
                   coordinated_groups, raised, earlier>>

\* where the handler goes after the anchor at pos
\* mutant: the loop ends before the last row has had its turn
AfterAnchorEarly == IF pos + 1 >= Len(sorted_data) THEN "graph" ELSE "loop"

AfterAnchor == IF pos + 1 > Len(sorted_data) THEN "graph" ELSE "loop"

\* lines 797-799: the row at pos is already claimed
AnchorSkip ==
    /\ pc = "loop"
    /\ Claimed(sorted_data[pos], processed_indices)
    /\ pos' = pos + 1
    /\ pc' = AfterAnchor
    /\ UNCHANGED <<helpers, data, data_columns, tieBreak, other, query, time_window, similarity_threshold,
                   sorted_data, processed_indices, coordinated_groups, raised,
                   response, earlier>>

\* lines 801-875: the row at pos is an anchor and its iteration completes
AnchorStep ==
    /\ pc = "loop"
    /\ ~Claimed(sorted_data[pos], processed_indices)
    /\ LET r == AnchorIteration(data, sorted_data, sorted_data[pos], time_window,
                                similarity_threshold, coordinated_groups,
                                processed_indices)
       IN  /\ ~r.raised
           /\ coordinated_groups' = r.groups
           /\ processed_indices' = r.processed
    /\ pos' = pos + 1
    /\ pc' = AfterAnchor
    /\ UNCHANGED <<helpers, data, data_columns, tieBreak, other, query, time_window, similarity_threshold,
                   sorted_data, raised, response, earlier>>

\* lines 801-879: the iteration of the anchor at pos raises, the except
\* block prints the message and the handler goes on with what it has
AnchorRaise ==
    /\ pc = "loop"
    /\ ~Claimed(sorted_data[pos], processed_indices)
    /\ LET r == AnchorIteration(data, sorted_data, sorted_data[pos], time_window,
                                similarity_threshold, coordinated_groups,
                                processed_indices)
       IN  /\ r.raised
           /\ coordinated_groups' = r.groups
           /\ processed_indices' = r.processed
    /\ raised' = "TypeError"
    /\ pc' = "graph"
    /\ UNCHANGED <<helpers, data, data_columns, tieBreak, other, query, time_window, similarity_threshold,
                   sorted_data, pos, response, earlier>>

\* lines 881-939: graph, metrics and the response
Respond ==
    /\ pc = "graph"
    /\ ~MetricsRaise(data, filtered_data(data, query))
    /\ response' = OkResponse(data, filtered_data(data, query), coordinated_groups,
                              time_window, similarity_threshold)
    /\ pc' = "done"
    /\ UNCHANGED <<helpers, data, data_columns, tieBreak, other, query, time_window, similarity_threshold,
                   sorted_data, pos, processed_indices, coordinated_groups, raised, earlier>>

\* lines 881-930: the metrics raise, outside of the try block
RespondRaise ==
    /\ pc = "graph"
    /\ MetricsRaise(data, filtered_data(data, query))
    /\ response' = ErrorResponse
    /\ pc' = "done"
    /\ UNCHANGED <<helpers, data, data_columns, tieBreak, other, query, time_window, similarity_threshold,
                   sorted_data, pos, processed_indices, coordinated_groups, raised, earlier>>

Next ==
    \/ RejectNoData
    \/ \E q \in Queries, w \in Windows, thr \in Thresholds : StartQuery(q, w, thr)
    \/ AnchorSkip
    \/ AnchorStep
    \/ AnchorRaise
    \/ Respond
    \/ RespondRaise

Spec == Init /\ [][Next]_vars

(* ------------------ runs that compare two requests -------------------- *)

\* the observer keeps the request that just completed, with its response
Remember ==
    /\ pc = "done"
    /\ response.status = 200
    /\ earlier = NoRequest
    /\ earlier' = [status |-> response.status,
                   query |-> query,
                   time_window |-> time_window,
                   similarity_threshold |-> similarity_threshold,
                   raised |-> raised,
                   response |-> response]
    /\ UNCHANGED <<helpers, data, data_columns, tieBreak, other, pc, query, time_window, similarity_threshold,
                   sorted_data, pos, processed_indices, coordinated_groups,
                   raised, response>>

InitSeq == InitOn(SeqCorpora)

NextSeq == Next \/ Remember

SpecSeq == InitSeq /\ [][NextSeq]_vars

(* ------------------- runs on the reference corpora -------------------- *)

InitRef == InitOn(RefCorpora)

NextRef ==
    \/ RejectNoData
    \/ \E q \in RefQueries, w \in RefWindows, thr \in RefThresholds :
          StartQuery(q, w, thr)
    \/ AnchorSkip
    \/ AnchorStep
    \/ AnchorRaise
    \/ Respond
    \/ RespondRaise

SpecRef == InitRef /\ [][NextRef]_vars

(* ---------------------- two requests in flight ------------------------ *)
(* The development server (app.run) serves each request in a thread of its *)
(* own; the second handler below runs the same code on its own locals,     *)
(* kept in the record  other.  A step of either handler is one iteration   *)
(* of the anchor loop.                                                     *)

\* mutant: the claimed set is one set shared by every request
OtherClaimedShared == other.processed_indices \cup processed_indices

\* the claimed set the second handler consults: its own local set
OtherClaimed == other.processed_indices

OtherReject ==
    /\ other.pc \in {"idle", "done"}
    /\ NoData(data)
    /\ other' = [other EXCEPT !.pc = "done", !.response = NoDataResponse]
    /\ UNCHANGED <<helpers, data, data_columns, tieBreak, pc, query, time_window,
                   similarity_threshold, sorted_data, pos, processed_indices,
                   coordinated_groups, raised, response, earlier>>

OtherStart(q, w, thr) ==
    /\ other.pc \in {"idle", "done"}
    /\ ~NoData(data)
    /\ other' = [pc |-> IF FitFails(data, filtered_data(data, q))
                        THEN "graph" ELSE "loop",
                 query |-> q,
                 time_window |-> w,
                 similarity_threshold |-> thr,
                 sorted_data |-> SortValues(data, tieBreak, filtered_data(data, q)),
                 pos |-> 1,
                 processed_indices |-> {},
                 coordinated_groups |-> <<>>,
                 raised |-> IF FitFails(data, filtered_data(data, q))
                            THEN "ValueError" ELSE "",
                 response |-> NoResponse]
    /\ data_columns' = SetColumn(data_columns, FrameOfSort(FrameOfFilter(q)),
                                "analysis_text")
    /\ UNCHANGED <<helpers, data, tieBreak, pc, query, time_window,
                   similarity_threshold, sorted_data, pos, processed_indices,
                   coordinated_groups, raised, response, earlier>>

OtherAfterAnchor == IF other.pos + 1 > Len(other.sorted_data) THEN "graph" ELSE "loop"

OtherSkip ==
    /\ other.pc = "loop"
    /\ Claimed(other.sorted_data[other.pos], OtherClaimed)
    /\ other' = [other EXCEPT !.pos = other.pos + 1, !.pc = OtherAfterAnchor]
    /\ UNCHANGED <<helpers, data, data_columns, tieBreak, pc, query, time_window,
                   similarity_threshold, sorted_data, pos, processed_indices,
                   coordinated_groups, raised, response, earlier>>

OtherStep ==
    /\ other.pc = "loop"
    /\ ~Claimed(other.sorted_data[other.pos], OtherClaimed)
    /\ LET r == AnchorIteration(data, other.sorted_data,
                                other.sorted_data[other.pos], other.time_window,
                                other.similarity_threshold,
                                other.coordinated_groups, OtherClaimed)
       IN  /\ ~r.raised
           /\ other' = [other EXCEPT !.coordinated_groups = r.groups,
                                     !.processed_indices = r.processed,
                                     !.pos = other.pos + 1,
                                     !.pc = OtherAfterAnchor]
    /\ UNCHANGED <<helpers, data, data_columns, tieBreak, pc, query, time_window,
                   similarity_threshold, sorted_data, pos, processed_indices,
                   coordinated_groups, raised, response, earlier>>

OtherRaise ==
    /\ other.pc = "loop"
    /\ ~Claimed(other.sorted_data[other.pos], OtherClaimed)
    /\ LET r == AnchorIteration(data, other.sorted_data,
                                other.sorted_data[other.pos], other.time_window,
                                other.similarity_threshold,
                                other.coordinated_groups, OtherClaimed)
       IN  /\ r.raised
           /\ other' = [other EXCEPT !.coordinated_groups = r.groups,
                                     !.processed_indices = r.processed,
                                     !.raised = "TypeError",
                                     !.pc = "graph"]
    /\ UNCHANGED <<helpers, data, data_columns, tieBreak, pc, query, time_window,
                   similarity_threshold, sorted_data, pos, processed_indices,
                   coordinated_groups, raised, response, earlier>>

OtherRespond ==
    /\ other.pc = "graph"
    /\ ~MetricsRaise(data, filtered_data(data, other.query))
    /\ other' = [other EXCEPT
                   !.response = OkResponse(data, filtered_data(data, other.query),
                                           other.coordinated_groups,
                                           other.time_window,
                                           other.similarity_threshold),
                   !.pc = "done"]
    /\ UNCHANGED <<helpers, data, data_columns, tieBreak, pc, query, time_window,
                   similarity_threshold, sorted_data, pos, processed_indices,
                   coordinated_groups, raised, response, earlier>>

OtherRespondRaise ==
    /\ other.pc = "graph"
    /\ MetricsRaise(data, filtered_data(data, other.query))
    /\ other' = [other EXCEPT !.response = ErrorResponse, !.pc = "done"]
    /\ UNCHANGED <<helpers, data, data_columns, tieBreak, pc, query, time_window,
                   similarity_threshold, sorted_data, pos, processed_indices,
                   coordinated_groups, raised, response, earlier>>

InitConc == InitOn(ConcCorpora)

NextConc ==
    \/ Next
    \/ OtherReject
    \/ \E q \in OtherQueries, w \in OtherWindows, thr \in OtherThresholds :
          OtherStart(q, w, thr)
    \/ OtherSkip
    \/ OtherStep
    \/ OtherRaise
    \/ OtherRespond
    \/ OtherRespondRaise

SpecConc == InitConc /\ [][NextConc]_vars

\* the anchor loop run from position k to its end with nothing else running
RECURSIVE Pass(_, _, _, _, _, _, _)
Pass(d, sd, k, w, thr, groups, proc) ==
    IF k > Len(sd) THEN groups
    ELSE IF Claimed(sd[k], proc) THEN Pass(d, sd, k + 1, w, thr, groups, proc)
    ELSE LET r == AnchorIteration(d, sd, sd[k], w, thr, groups, proc)
         IN  IF r.raised THEN r.groups
             ELSE Pass(d, sd, k + 1, w, thr, r.groups, r.processed)

\* what the handler returns for a request when it runs alone
RunAlone(d, tb, q, w, thr) ==
    IF NoData(d) THEN NoDataResponse
    ELSE LET filt == filtered_data(d, q)
             groups == IF FitFails(d, filt) THEN <<>>
                       ELSE Pass(d, SortValues(d, tb, filt), 1, w, thr, <<>>, {})
         IN  IF MetricsRaise(d, filt) THEN ErrorResponse
             ELSE OkResponse(d, filt, groups, w, thr)

(* ------------------------ the other analyses -------------------------- *)

\* CountVectorizer(max_df=0.95, min_df=2, stop_words='english') raises
\* ValueError: max_df stands for fewer documents than min_df, or no term
\* is left with min_df <= document frequency <= 0.95 * len(documents)
TopicsFitFails(d, S) ==
    \/ 95 * Cardinality(S) < 100 * min_df
    \/ ~\E term \in (UNION { d[i].words : i \in S }) \ STOP_WORDS :
          /\ DocFreq(d, S, term) >= min_df
          /\ 100 * DocFreq(d, S, term) <= 95 * Cardinality(S)

\* the body of an analysis other than the coordination: its top-level keys
\* and the number of rows it was computed from
AnalysisResponse(st, ks, S) == [status |-> st, keys |-> ks, rows |-> Cardinality(S)]

\* an analysis runs from its first line to its return, writes cols to the
\* columns of the global frame and answers resp
Serve(resp, cols) ==
    /\ pc' = "done"
    /\ response' = IF NoData(data) THEN NoDataResponse ELSE resp
    /\ data_columns' = IF NoData(data) THEN data_columns ELSE cols
    /\ query' = IdleHandler.query
    /\ time_window' = IdleHandler.time_window
    /\ similarity_threshold' = IdleHandler.similarity_threshold
    /\ sorted_data' = IdleHandler.sorted_data
    /\ pos' = IdleHandler.pos
    /\ processed_indices' = IdleHandler.processed_indices
    /\ coordinated_groups' = IdleHandler.coordinated_groups
    /\ raised' = IdleHandler.raised
    /\ UNCHANGED <<helpers, data, tieBreak, other, earlier>>

\* get_timeseries: data[mask] is a new frame, grouped by date
get_timeseries(q) ==
    /\ pc \in {"idle", "done"}
    /\ Serve(AnalysisResponse(200, {}, filtered_data(data, q)), data_columns)

\* get_top_contributors: data[mask] is a new frame, value_counts of author
get_top_contributors(q) ==
    /\ pc \in {"idle", "done"}
    /\ Serve(AnalysisResponse(200, {}, filtered_data(data, q)), data_columns)

\* get_network: data[mask] is a new frame, read row by row
get_network(q) ==
    /\ pc \in {"idle", "done"}
    /\ Serve(AnalysisResponse(200,
                              IF NoData(data) \/ filtered_data(data, q) = {}
                              THEN {"nodes", "links"}
                              ELSE {"nodes", "links", "metrics", "network_type"},
                              filtered_data(data, q)),
             data_columns)

\* get_topics: filtered_data is data itself for an empty query; the columns
\* combined_text, dominant_topic and date are assigned to filtered_data
get_topics(q) ==
    LET S == filtered_data(data, q)
        frame == FrameOfFilter(q)
        cols1 == SetColumn(data_columns, frame, "combined_text")
        cols3 == SetColumn(SetColumn(cols1, frame, "dominant_topic"), frame, "date")
    IN  /\ pc \in {"idle", "done"}
        /\ IF NoData(data) \/ S = {}
           THEN Serve(AnalysisResponse(200, {}, S), data_columns)
           ELSE IF TopicsFitFails(data, S)
           THEN Serve(ErrorResponse, cols1)
           ELSE Serve(AnalysisResponse(200, {"topics", "topic_evolution",
                                             "coherence_score", "n_docs_analyzed"}, S),
                      cols3)

\* get_semantic_map: filtered_data is data itself for an empty query and is
\* only read; 404 when no row is left
get_semantic_map(q) ==
    LET S == filtered_data(data, q)
    IN  /\ pc \in {"idle", "done"}
        /\ IF NoData(data) \/ S # {}
           THEN Serve(AnalysisResponse(200, {"points", "topics", "total_posts",
                                             "umap_params"}, S),
                      data_columns)
           ELSE Serve(AnalysisResponse(404, {"error"}, S), data_columns)

InitAnalyses == InitOn(SeqCorpora)

NextAnalyses ==
    \/ Next
    \/ \E q \in Queries : get_timeseries(q)
    \/ \E q \in Queries : get_top_contributors(q)
    \/ \E q \in Queries : get_network(q)
    \/ \E q \in Queries : get_topics(q)
    \/ \E q \in Queries : get_semantic_map(q)

SpecAnalyses == InitAnalyses /\ [][NextAnalyses]_vars

(* ------------------------- properties: helpers ------------------------- *)

Done == pc = "done"
Answered == pc = "done" /\ response.status = 200

\* the rows left by the filter of the current request
Filtered == filtered_data(data, query)

\* the (group, position) memberships of a list of groups
Memberships(groups) ==
    { <<g, k>> : g \in DOMAIN groups, k \in 1..MaxPosts } \cap
    { m \in (DOMAIN groups) \X (1..MaxPosts) : m[2] \in DOMAIN groups[m[1]].posts }

\* the rows that are in some group
Grouped(groups) == { groups[m[1]].posts[m[2]] : m \in Memberships(groups) }

\* the rows that are the anchor of some group
Anchors(groups) == { groups[g].posts[1] : g \in DOMAIN groups }

\* the groups in which author a has a post
GroupsOf(groups, a) ==
    { g \in DOMAIN groups :
        \E k \in DOMAIN groups[g].posts : data[groups[g].posts[k]].author = a }

\* the pairs of posts of one group, one by a and one by b
PostPairs(groups, a, b) ==
    { t \in (DOMAIN groups) \X (1..MaxPosts) \X (1..MaxPosts) :
        /\ t[2] \in DOMAIN groups[t[1]].posts
        /\ t[3] \in DOMAIN groups[t[1]].posts
        /\ data[groups[t[1]].posts[t[2]]].author = a
        /\ data[groups[t[1]].posts[t[3]]].author = b }

Authors == DOMAIN AuthorRank

(* ------------------------------ properties ----------------------------- *)

\* C1: in a returned result every post is in at most one group, at one
\* position (anchor or member), and every group has at least 2 posts.
C1_Partition ==
    Answered =>
        /\ \A g \in DOMAIN response.groups :
              /\ Len(response.groups[g].posts) >= 2
              /\ response.groups[g].size = Len(response.groups[g].posts)
        /\ \A m1, m2 \in Memberships(response.groups) :
              response.groups[m1[1]].posts[m1[2]] = response.groups[m2[1]].posts[m2[2]]
                  => m1 = m2

\* two groups were returned, and a member of the first one has the anchor
\* of the second one in its window and is similar to it: it would have
\* claimed that anchor, had it not been claimed itself
C1_Witness ==
    /\ Answered
    /\ Len(response.groups) >= 2
    /\ \E k \in 2..Len(response.groups[1].posts) :
          LET m == response.groups[1].posts[k]
              a == response.groups[2].posts[1]
          IN  /\ InWindow(data, m, a, time_window)
              /\ Similar(data, Filtered, m, a, similarity_threshold)

\* C2 (as stated): the weight of every returned edge {A,B} is the number of
\* groups in which A and B both have a post.
C2_WeightIsGroupCount ==
    Answered =>
        \A k \in DOMAIN response.links :
            response.links[k].weight =
                Cardinality(GroupsOf(response.groups, response.links[k].source)
                            \cap GroupsOf(response.groups, response.links[k].target))

\* C2 (amended): the weight of every returned edge {A,B} is the number of
\* pairs of posts, one by A and one by B, lying in the same group, summed
\* over the groups; it is the number of groups in which both have a post
\* when no group holds more than one post of A or of B.
C2_WeightIsPairCount ==
    Answered =>
        \A k \in DOMAIN response.links :
            LET a == response.links[k].source
                b == response.links[k].target
                both == GroupsOf(response.groups, a) \cap GroupsOf(response.groups, b)
            IN  /\ response.links[k].weight
                      = Cardinality(PostPairs(response.groups, a, b))
                /\ (\A g \in both :
                       \A k1, k2 \in DOMAIN response.groups[g].posts :
                           LET p1 == data[response.groups[g].posts[k1]].author
                               p2 == data[response.groups[g].posts[k2]].author
                           IN  (p1 = p2 /\ p1 \in {a, b}) => k1 = k2)
                   => response.links[k].weight = Cardinality(both)

\* an edge of weight 2 that comes from two groups, each with one post of
\* either author
C2_Witness ==
    /\ Answered
    /\ \E k \in DOMAIN response.links :
          LET a == response.links[k].source
              b == response.links[k].target
          IN  /\ response.links[k].weight = 2
              /\ Cardinality(GroupsOf(response.groups, a)
                             \cap GroupsOf(response.groups, b)) = 2

\* C3 (as stated): a request on a loaded corpus whose filter leaves no post is answered
\* normally, with no group, no node, no link, all counts 0 and density 0.
C3_EmptyInput ==
    (Done /\ data # None /\ Filtered = {}) =>
        /\ response.status = 200
        /\ response.groups = <<>>
        /\ response.nodes = {}
        /\ response.links = <<>>
        /\ response.metrics.total_groups = 0
        /\ response.metrics.total_authors = 0
        /\ response.metrics.total_connections = 0
        /\ response.metrics.density = <<0, 1>>

\* C4 (as stated): of two requests for the same query and time_window whose
\* clustering passes raised nothing, the one with the higher threshold has
\* no more memberships than the other.
C4_MonotonicMemberships ==
    (Answered /\ earlier.status = 200 /\ raised = "" /\ earlier.raised = ""
       /\ earlier.query = query /\ earlier.time_window = time_window) =>
        /\ earlier.similarity_threshold < similarity_threshold =>
              Cardinality(Memberships(response.groups))
                  <= Cardinality(Memberships(earlier.response.groups))
        /\ similarity_threshold < earlier.similarity_threshold =>
              Cardinality(Memberships(earlier.response.groups))
                  <= Cardinality(Memberships(response.groups))

\* C4 (amended): of two such requests, when the one with the lower
\* threshold has no membership, the one with the higher threshold has none;
\* and every member of a group under the higher threshold passes the
\* similarity test with its anchor under the lower one.
C4_NoGroupsStaysNoGroups ==
    (Answered /\ earlier.status = 200 /\ raised = "" /\ earlier.raised = ""
       /\ earlier.query = query /\ earlier.time_window = time_window) =>
        /\ earlier.similarity_threshold < similarity_threshold =>
              /\ earlier.response.groups = <<>> => response.groups = <<>>
              /\ \A m \in Memberships(response.groups) :
                    m[2] > 1 =>
                        Similar(data, Filtered, response.groups[m[1]].posts[1],
                                response.groups[m[1]].posts[m[2]],
                                earlier.similarity_threshold)
        /\ similarity_threshold < earlier.similarity_threshold =>
              /\ response.groups = <<>> => earlier.response.groups = <<>>
              /\ \A m \in Memberships(earlier.response.groups) :
                    m[2] > 1 =>
                        Similar(data, Filtered, earlier.response.groups[m[1]].posts[1],
                                earlier.response.groups[m[1]].posts[m[2]],
                                similarity_threshold)

\* the same request was answered under a lower and under a higher threshold,
\* and the two answers have groups and differ
C4_Witness ==
    /\ Answered /\ earlier.status = 200 /\ raised = "" /\ earlier.raised = ""
    /\ earlier.query = query /\ earlier.time_window = time_window
    /\ earlier.similarity_threshold < similarity_threshold
    /\ response.groups # <<>>
    /\ response.groups # earlier.response.groups

\* C5: in every returned group the timestamp of each post after the first
\* lies in [anchor time, anchor time + time_window], bounds included.
C5_WindowContainment ==
    Answered =>
        \A g \in DOMAIN response.groups :
            \A k \in 2..Len(response.groups[g].posts) :
                LET anchor_time == data[response.groups[g].posts[1]].created_utc
                    t == data[response.groups[g].posts[k]].created_utc
                IN  anchor_time <= t /\ t <= anchor_time + time_window

\* a group with a member exactly at anchor time + time_window, while a later
\* row similar to the anchor stayed out of the group
C5_Witness ==
    /\ Answered
    /\ time_window > 0
    /\ \E g \in DOMAIN response.groups :
          LET anchor == response.groups[g].posts[1]
          IN  /\ \E k \in 2..Len(response.groups[g].posts) :
                    data[response.groups[g].posts[k]].created_utc
                        = data[anchor].created_utc + time_window
              /\ \E j \in Filtered :
                    /\ data[j].created_utc > data[anchor].created_utc + time_window
                    /\ Similar(data, Filtered, anchor, j, similarity_threshold)
                    /\ j \notin SeqToSet(response.groups[g].posts)

\* C6: the returned links hold an edge between authors A and B exactly when
\* A # B and some group has a post of A and a post of B; every weight is at
\* least 1, no edge is a self-loop, and no unordered pair has two entries.
C6_EdgeSet ==
    Answered =>
        /\ \A a, b \in Authors :
              (\E k \in DOMAIN response.links :
                  {response.links[k].source, response.links[k].target} = {a, b}
                  /\ (a = b => response.links[k].source = response.links[k].target))
              <=> (a # b /\ GroupsOf(response.groups, a)
                              \cap GroupsOf(response.groups, b) # {})
        /\ \A k \in DOMAIN response.links :
              /\ response.links[k].weight >= 1
              /\ response.links[k].source # response.links[k].target
        /\ \A k1, k2 \in DOMAIN response.links :
              {response.links[k1].source, response.links[k1].target}
                  = {response.links[k2].source, response.links[k2].target}
              => k1 = k2

\* links were returned for a group that lists the two authors in both
\* orders and has two posts of one author
C6_Witness ==
    /\ Answered
    /\ response.links # <<>>
    /\ \E g \in DOMAIN response.groups :
          \E k1, k2, k3 \in DOMAIN response.groups[g].posts :
              /\ k1 < k2 /\ k2 < k3
              /\ data[response.groups[g].posts[k1]].author
                    = data[response.groups[g].posts[k3]].author
              /\ data[response.groups[g].posts[k1]].author
                    # data[response.groups[g].posts[k2]].author

\* C7: a request with the same query, time_window and similarity_threshold
\* as an earlier one on the same corpus returns the same groups, with the
\* same members in the same order, whatever was requested in between.
C7_Determinism ==
    (Answered /\ earlier.status = 200
       /\ earlier.query = query /\ earlier.time_window = time_window
       /\ earlier.similarity_threshold = similarity_threshold) =>
        response.groups = earlier.response.groups

\* the same request was answered twice, with two groups each time
C7_Witness ==
    /\ Answered /\ earlier.status = 200
    /\ earlier.query = query /\ earlier.time_window = time_window
    /\ earlier.similarity_threshold = similarity_threshold
    /\ Len(response.groups) >= 2
    /\ response.groups = earlier.response.groups

\* C8 (as stated, for a filter that leaves some post): when the
\* vectorization or the clustering raised, the request is answered normally
\* and the returned list of groups is empty.
C8_FailureGivesNoGroups ==
    (Done /\ raised # "" /\ Filtered # {}) =>
        /\ response.status = 200
        /\ response.groups = <<>>

\* C9: when no vocabulary can be fitted on a filtered corpus that is not
\* empty, the request is answered normally with no group, no link and
\* density 0.
C9_VectorizationFailure ==
    (Done /\ Filtered # {} /\ FitFails(data, Filtered)) =>
        /\ response.status = 200
        /\ response.groups = <<>>
        /\ response.links = <<>>
        /\ response.metrics.total_groups = 0
        /\ response.metrics.density = <<0, 1>>

\* a request was answered although its filtered rows, which have words
\* other than stop words, share no term
C9_Witness ==
    /\ Done /\ FitFails(data, Filtered) /\ raised = "ValueError"
    /\ Cardinality(Filtered) >= 2
    /\ \A i \in Filtered : data[i].words \ STOP_WORDS # {}
    /\ response.status = 200

\* the diagnostic fields of a response
DiagnosticKeys == {"error", "message", "warning", "diagnostic"}

\* C10 (as stated): the answer to a request whose vectorization or
\* clustering raised carries a diagnostic message.
C10_DiagnosticInResponse ==
    (Answered /\ raised # "") => response.keys \cap DiagnosticKeys # {}

\* C11: with no corpus loaded the request is answered by an error (status
\* 400, key "error") and no step of the pipeline has run: nothing was
\* filtered, sorted or vectorized, no anchor was processed, nothing raised.
\* No successful response, with or without groups, looks like this answer.
C11_InputUnavailable ==
    data = None =>
        /\ pc \in {"idle", "done"}
        /\ sorted_data = <<>> /\ pos = 1
        /\ processed_indices = {} /\ coordinated_groups = <<>>
        /\ raised = ""
        /\ Done => /\ response = NoDataResponse
                   /\ response.status # 200
                   /\ "groups" \notin response.keys

\* a request was answered while no corpus was loaded
C11_Witness == data = None /\ Done /\ response.status = 400

\* C12 (as stated): no request is answered normally after the clustering
\* pass ran with a negative time_window or a negative similarity_threshold:
\* the value was brought into range first, or the request was rejected.
C12_NoOutOfRangeRun ==
    (Answered /\ raised = "" /\ Len(sorted_data) >= 2) =>
        /\ time_window >= 0 /\ response.metrics.time_window_seconds >= 0
        /\ similarity_threshold >= 0 /\ response.metrics.similarity_threshold >= 0

\* C13: in a returned result, with N the number of nodes and E the number
\* of links, total_authors = N, total_connections = E, and the density is
\* E / (N * (N - 1) / 2) when N > 1 and exactly 0 when N <= 1.
C13_DensityFormula ==
    Answered =>
        LET N == Cardinality(response.nodes)
            E == Len(response.links)
            density == response.metrics.density
        IN  /\ response.metrics.total_authors = N
            /\ response.metrics.total_connections = E
            /\ N > 1 => /\ density[2] # 0
                        /\ density[1] * (N * (N - 1)) = 2 * E * density[2]
            /\ N <= 1 => density = <<0, 1>>

\* a returned graph of 3 authors with 1 link: its density is 1/3
C13_Witness ==
    /\ Answered
    /\ Cardinality(response.nodes) = 3 /\ Len(response.links) = 1
    /\ response.metrics.density[1] * 3 = response.metrics.density[2]

\* the request of the reference scenario on a corpus holding, in any order,
\* the four posts of the scenario and nothing else
RefScenario ==
    /\ data # None /\ Len(data) = 4
    /\ { data[i] : i \in DOMAIN data } =
           { Post("A", 0, RefText, FALSE, {}, {}), Post("B", 10, RefText, FALSE, {}, {}),
             Post("C", 20, RefText, FALSE, {}, {}), Post("D", 7200, RefText, FALSE, {}, {}) }
    /\ query = "" /\ time_window = 3600 /\ similarity_threshold = 9

\* C14: the reference scenario is answered with exactly one group, whose
\* posts are those of A, B, C in that order; the post of D is in no group;
\* the links are A-B, A-C, B-C, each of weight 1; the density is 1 and the
\* average group size is 3.
C14_ReferenceScenario ==
    (Done /\ RefScenario) =>
        /\ response.status = 200
        /\ Len(response.groups) = 1
        /\ response.groups[1].size = 3
        /\ [k \in 1..3 |-> data[response.groups[1].posts[k]].author] = <<"A", "B", "C">>
        /\ \A i \in Grouped(response.groups) : data[i].author # "D"
        /\ { response.links[k] : k \in DOMAIN response.links } =
               { [source |-> "A", target |-> "B", weight |-> 1],
                 [source |-> "A", target |-> "C", weight |-> 1],
                 [source |-> "B", target |-> "C", weight |-> 1] }
        /\ Len(response.links) = 3
        /\ response.metrics.density[1] = response.metrics.density[2]
        /\ response.metrics.avg_group_size[1] = 3 * response.metrics.avg_group_size[2]

\* the reference scenario was answered, its rows ingested out of order
C14_Witness ==
    /\ Answered /\ RefScenario
    /\ data[1].author = "D"
    /\ response.metrics.total_groups = 1

\* C18: a row whose created_utc is missing is in no group of a returned
\* result, and a request whose filtered rows include such a row, and that
\* no other failure stops (some row is left, no selftext is missing), is
\* answered normally, with the groups the other rows form.
C18_NoTimestampExcluded ==
    /\ Answered => \A i \in Grouped(response.groups) : data[i].created_utc # NaT
    /\ (Done /\ data # None /\ (\E i \in Filtered : data[i].created_utc = NaT)
             /\ (\A i \in Filtered : ~data[i].selftext_missing)) =>
            /\ response.status = 200
            /\ raised \in {"", "ValueError"}
            /\ raised = "ValueError" <=> FitFails(data, Filtered)

\* a result with a group was returned for rows of which one, similar to
\* the rows of the group, has no timestamp
C18_Witness ==
    /\ Answered /\ raised = ""
    /\ Len(response.groups) >= 1
    /\ \E i \in Filtered, j \in Grouped(response.groups) :
          /\ data[i].created_utc = NaT
          /\ Similar(data, Filtered, i, j, similarity_threshold)

\* C15: no step of the coordination request changes the global corpus: its
\* rows and their values stay what they were, and so do its columns, for
\* an empty query too (analysis_text is added to the sorted copy).
C15_CorpusReadOnly == [][data' = data /\ data_columns' = data_columns]_vars

\* a request with the empty query has been answered with a group, and the
\* columns of the corpus are those it was loaded with
C15_Witness ==
    /\ Answered /\ query = "" /\ raised = ""
    /\ FrameOfFilter(query) = "data"
    /\ Len(response.groups) >= 1
    /\ data_columns = LoadedColumns

\* C16 (as stated): whatever analyses have been served, the global corpus
\* has the columns it was loaded with.
C16_NoAnalysisMutates ==
    pc \in {"idle", "done"} => data_columns = LoadedColumns

\* C17: with two requests in flight on one corpus, their steps interleaved
\* in any order, each is answered with what it is answered when it runs
\* alone.
C17_NoInterference ==
    /\ Done => response = RunAlone(data, tieBreak, query, time_window,
                                   similarity_threshold)
    /\ other.pc = "done" =>
          other.response = RunAlone(data, tieBreak, other.query, other.time_window,
                                    other.similarity_threshold)

\* a request is answered with a group while the other one, started before
\* the answer and under another threshold, is in its anchor loop and has
\* claimed a row that the answered request left unclaimed
C17_Witness ==
    /\ Answered /\ Len(response.groups) >= 1
    /\ other.pc = "loop" /\ other.pos > 1
    /\ other.similarity_threshold # similarity_threshold
    /\ other.processed_indices \ processed_indices # {}

\* C19: in every response the k-th group of the list, k counted from 0,
\* has group_id k: the ids are exactly 0 .. total_groups - 1, each once.
C19_SequentialGroupIds ==
    Answered =>
        /\ \A g \in DOMAIN response.groups : response.groups[g].group_id = g - 1
        /\ { response.groups[g].group_id : g \in DOMAIN response.groups } =
               0 .. (response.metrics.total_groups - 1)
        /\ Cardinality(DOMAIN response.groups) = response.metrics.total_groups

\* a response with two groups
C19_Witness ==
    /\ Answered
    /\ Len(response.groups) = 2
    /\ response.groups[2].group_id = 1

\* C20: a row whose turn as an anchor has passed and that is unclaimed (it
\* was processed as an anchor and its group stayed at size 1) is in no
\* group after any later step of the same pass.
C20_FailedAnchorsStayOut ==
    [][pc = "loop" =>
         \A k \in 1..(pos - 1) :
            ~Claimed(sorted_data[k], processed_indices) =>
                sorted_data[k] \notin Grouped(coordinated_groups')]_vars

\* the last group emitted has an anchor x that came after a failed anchor
\* of the same timestamp, unclaimed and inside the window of x
C20_Witness ==
    /\ pc \in {"loop", "graph"} /\ raised = ""
    /\ coordinated_groups # <<>>
    /\ LET x == coordinated_groups[Len(coordinated_groups)].posts[1]
       IN  \E kx \in 1..(pos - 1) :
              /\ sorted_data[kx] = x
              /\ \E k \in 1..(kx - 1) :
                    /\ ~Claimed(sorted_data[k], processed_indices)
                    /\ data[sorted_data[k]].created_utc = data[x].created_utc
                    /\ InWindow(data, x, sorted_data[k], time_window)

\* the ids of the nodes and the endpoints of the links of a response
NodeIds == { n.id : n \in response.nodes }
Endpoints ==
    { response.links[k].source : k \in DOMAIN response.links } \cup
    { response.links[k].target : k \in DOMAIN response.links }

\* C21 (as stated): the nodes of a returned graph are exactly the authors
\* that are an endpoint of some link.
C21_EveryNodeHasEdge == Answered => NodeIds = Endpoints

\* C21 (amended): the nodes of a returned graph are exactly the authors of
\* the posts of the groups; every endpoint of a link is a node, and a node
\* is the endpoint of a link exactly when one of its groups has a post of
\* another author, so that an author grouped only with itself is a node
\* without a link.
C21_NodesAreGroupAuthors ==
    Answered =>
        /\ NodeIds = { data[i].author : i \in Grouped(response.groups) }
        /\ Endpoints \subseteq NodeIds
        /\ \A a \in NodeIds :
              a \in Endpoints <=>
                 \E g \in GroupsOf(response.groups, a) :
                    \E k \in DOMAIN response.groups[g].posts :
                       data[response.groups[g].posts[k]].author # a

\* a returned graph with a link and with a node that no link touches
C21_Witness ==
    /\ Answered
    /\ Len(response.links) >= 1
    /\ NodeIds \ Endpoints # {}

\* Q passes the test of the greedy matching rule for the anchor P of the
\* current turn: another row, unclaimed, in the window of P, similar enough
MatchesAnchor(P, Q) ==
    /\ Q # P
    /\ ~Claimed(Q, processed_indices)
    /\ InWindow(data, P, Q, time_window)
    /\ Similar(data, SeqToSet(sorted_data), P, Q, similarity_threshold)

\* C22 (as stated): in the turn of an unclaimed row P as an anchor, a row Q
\* is put in the group of P and claimed if and only if it is another row,
\* unclaimed, with a timestamp in [T, T + time_window] and a boosted
\* similarity with P of at least the threshold.
C22_GreedyMatchingRule ==
    [][(pc = "loop" /\ ~Claimed(sorted_data[pos], processed_indices)) =>
         LET P == sorted_data[pos]
         IN  \A Q \in SeqToSet(sorted_data) :
                MatchesAnchor(P, Q) <=>
                   /\ Q \in processed_indices' \ processed_indices
                   /\ coordinated_groups' # coordinated_groups
                   /\ \E k \in 2..MaxPosts :
                         LET g == coordinated_groups'[Len(coordinated_groups')]
                         IN  k \in DOMAIN g.posts /\ g.posts[1] = P /\ g.posts[k] = Q]_vars

\* timestamp t1 is not after t2 (a missing timestamp is after all others)
NotAfter(t1, t2) == t2 = NaT \/ (t1 # NaT /\ t1 <= t2)

\* C23: the rows are visited as anchors in the order of sorted_data, which
\* is by non-decreasing timestamp; the groups are in non-decreasing order
\* of anchor timestamp; in each group the anchor is first and the members
\* after it are in non-decreasing order of timestamp, none before the
\* anchor's.
C23_ProcessingOrder ==
    /\ \A k, l \in DOMAIN sorted_data :
          k < l => NotAfter(data[sorted_data[k]].created_utc,
                            data[sorted_data[l]].created_utc)
    /\ pc = "loop" => pos \in DOMAIN sorted_data
    /\ \A g \in DOMAIN coordinated_groups :
          /\ \E k \in 1..(pos - (IF pc = "loop" THEN 1 ELSE 0)) :
                k \in DOMAIN sorted_data /\ sorted_data[k] = coordinated_groups[g].posts[1]
          /\ \A h \in DOMAIN coordinated_groups :
                g < h => data[coordinated_groups[g].posts[1]].created_utc
                            <= data[coordinated_groups[h].posts[1]].created_utc
          /\ \A k, l \in DOMAIN coordinated_groups[g].posts :
                k < l => data[coordinated_groups[g].posts[k]].created_utc
                            <= data[coordinated_groups[g].posts[l]].created_utc
    /\ Answered => response.groups = coordinated_groups

\* a response with two groups of different anchor timestamps, one of them
\* with a member later than its anchor
C23_Witness ==
    /\ Answered
    /\ Len(response.groups) = 2
    /\ data[response.groups[1].posts[1]].created_utc
          < data[response.groups[2].posts[1]].created_utc
    /\ \E g \in DOMAIN response.groups :
          data[response.groups[g].posts[1]].created_utc
             < data[response.groups[g].posts[2]].created_utc

\* C24 (as stated): rows of equal timestamp are in sorted_data in their
\* ingestion order, and of two grouped rows of equal timestamp the anchor
\* is the one ingested first.
C24_StableTies ==
    /\ \A k, l \in DOMAIN sorted_data :
          (k < l /\ data[sorted_data[k]].created_utc = data[sorted_data[l]].created_utc)
             => sorted_data[k] < sorted_data[l]
    /\ \A g \in DOMAIN coordinated_groups :
          \A k \in DOMAIN coordinated_groups[g].posts :
             LET a == coordinated_groups[g].posts[1]
                 m == coordinated_groups[g].posts[k]
             IN  (k > 1 /\ data[a].created_utc = data[m].created_utc) => a < m

(* ------------- the score in double precision (lines 824-848) ----------- *)
\* The clustering specifications above compare scores exactly, in tenths:
\* their thresholds never meet a score at equality, where rounding decides.
\* Here one candidate pair is scored as the doubles score it. A double is
\* written <<k, e>>: the double nearest to the decimal k/10, moved by e
\* steps; a step is 2^-53 at k = 10 (doubles above 1.0 have even e) and
\* 2^-52 at k = 11 and k = 12.

\* cosine_similarity of two rows: exactly 0.0 for rows without a common term,
\* and for two rows with the same terms the rounded sum of products of the
\* twice-normalised weights, which lands on 1.0 or a few steps beside it
CosValues ==
    {<<0, 0>>} \cup {<<10, e>> : e \in {0 - 3, 0 - 2, 0 - 1, 0, 2, 4}}

\* float(request.args.get('similarity_threshold', 0.7)) for the strings
\* 0.2, 0.7, 1.0, 1.0000000000000002, 1.1, 1.2 and 1.3
ScoreThresholds ==
    {<<2, 0>>, <<7, 0>>, <<10, 0>>, <<10, 2>>, <<11, 0>>, <<12, 0>>, <<13, 0>>}

\* similarity += 0.1, rounded to the nearest double
AddBoost(x) ==
    CASE x[1] = 10 -> <<11, (4 * x[2] + 1) \div 8>>
      [] x[1] = 11 -> <<12, x[2] + 1>>
      [] OTHER     -> <<x[1] + 1, x[2]>>

\* similarity after the two optional boosts
similarity(cosine, links, hashtags) ==
    LET s1 == IF links THEN AddBoost(cosine) ELSE cosine
    IN  IF hashtags THEN AddBoost(s1) ELSE s1

\* x >= y on doubles
AtLeast(x, y) == x[1] > y[1] \/ (x[1] = y[1] /\ x[2] >= y[2])

ScoreInputs ==
    [cosine : CosValues, links : BOOLEAN, hashtags : BOOLEAN,
     threshold : ScoreThresholds, state : {"drawn"}, grouped : {FALSE}]

\* the comparison of line 848 on one candidate pair
ScorePair ==
    /\ scored.state = "drawn"
    /\ scored' = [scored EXCEPT
                    !.state = "compared",
                    !.grouped = AtLeast(similarity(scored.cosine, scored.links,
                                                   scored.hashtags),
                                        scored.threshold)]
    /\ UNCHANGED <<data, data_columns, tieBreak, pc, query, time_window,
                   similarity_threshold, sorted_data, pos, processed_indices,
                   coordinated_groups, raised, response, other, earlier,
                   model_cache, cache_call>>

InitScore ==
    /\ InitHandlers({})
    /\ model_cache = <<>>
    /\ cache_call = NoCall
    /\ scored \in ScoreInputs

NextScore == ScorePair

SpecScore == InitScore /\ [][NextScore]_vars

\* C25: the compared value is cosine + 0.1 (shared URL) + 0.1 (shared
\* hashtag), not clamped: a pair with cosine 1.0 and both boosts is grouped
\* under a threshold of 1.2, and a pair with no boost is never grouped
\* under a threshold above 1.0.
C25_BoostsStackUnclamped ==
    scored.state = "compared" =>
        /\ (scored.cosine = <<10, 0>> /\ scored.links /\ scored.hashtags
             /\ scored.threshold = <<12, 0>>) => scored.grouped
        /\ (~scored.links /\ ~scored.hashtags
             /\ AtLeast(scored.threshold, <<10, 1>>)) => ~scored.grouped

\* the first half of C25 alone
C25_StackedBoostsReach ==
    (scored.state = "compared" /\ scored.cosine = <<10, 0>> /\ scored.links
     /\ scored.hashtags /\ scored.threshold = <<12, 0>>) => scored.grouped

(* ----------------------- termination of the pass ----------------------- *)
\* The handler is straight-line code run by one worker: a step of the loop
\* that can be taken is taken.
NextFair ==
    \/ RejectNoData
    \/ \E q \in OtherQueries, w \in Windows, thr \in OtherThresholds :
           StartQuery(q, w, thr)
    \/ AnchorSkip
    \/ AnchorStep
    \/ AnchorRaise
    \/ Respond
    \/ RespondRaise

SpecFair ==
    /\ InitConc
    /\ [][NextFair]_vars
    /\ WF_vars(AnchorSkip \/ AnchorStep \/ AnchorRaise)

\* one turn of the loop on the row at pos
TurnTaken ==
    LET i == sorted_data[pos]
        r == AnchorIteration(data, sorted_data, i, time_window,
                             similarity_threshold, coordinated_groups,
                             processed_indices)
    IN  IF i \in processed_indices
        THEN /\ processed_indices' = processed_indices
             /\ coordinated_groups' = coordinated_groups
             /\ pos' = pos + 1
             /\ raised' = ""
        ELSE /\ processed_indices' = r.processed
             /\ coordinated_groups' = r.groups
             /\ IF r.raised
                THEN raised' # "" /\ pc' = "graph"
                ELSE raised' = "" /\ pos' = pos + 1

\* C26: the clustering pass terminates, and when it ends without an
\* exception every post has had its turn: it was processed as an anchor, or
\* it was skipped because it was already claimed, and for no other reason.
C26_PassExhaustive ==
    /\ [][pc = "loop" => TurnTaken]_vars
    /\ [](pc = "loop" => pos \in 1..Len(sorted_data))
    /\ []((pc \in {"graph", "done"} /\ raised = "")
            => pos = Len(sorted_data) + 1)
    /\ (pc = "loop") ~> (pc = "graph")

\* a pass over three rows or more has ended without an exception, with
\* claimed rows that were skipped and a row that was an anchor without a group
C26_Witness ==
    /\ pc = "graph"
    /\ raised = ""
    /\ Len(sorted_data) >= 3
    /\ processed_indices # {}
    /\ \E k \in DOMAIN sorted_data : sorted_data[k] \notin processed_indices

\* C27: at the end of every anchor iteration that raised no exception,
\* processed_indices is exactly the set of posts of the groups emitted so
\* far; the set only grows during a pass; a post is claimed as a member when
\* it is matched, and as an anchor only when its group is emitted.
C27_ClaimedIsGrouped ==
    [][pc = "loop" =>
        LET i == sorted_data[pos]
            emitted == Len(coordinated_groups') = Len(coordinated_groups) + 1
            last == coordinated_groups'[Len(coordinated_groups')].posts
        IN  /\ processed_indices \subseteq processed_indices'
            /\ raised' = "" =>
                  /\ processed_indices' = Grouped(coordinated_groups')
                  /\ i \notin processed_indices =>
                        /\ i \in processed_indices' <=> emitted
                        /\ emitted => last[1] = i
                        /\ processed_indices' \ processed_indices =
                             IF emitted THEN SeqToSet(last) ELSE {}
                  /\ i \in processed_indices =>
                        processed_indices' = processed_indices]_vars

\* a turn has ended without an exception with a group emitted, and an
\* earlier row was an anchor that matched nothing and stayed unclaimed
C27_Witness ==
    /\ pc \in {"loop", "graph"}
    /\ raised = ""
    /\ Len(coordinated_groups) >= 1
    /\ \E k \in 1..(pos - 1) : sorted_data[k] \notin processed_indices

\* C28: for every emitted group, time_span is at least 0 and at most
\* time_window, and the earliest timestamp of the group is the anchor's.
C28_SpanWithinWindow ==
    \A g \in DOMAIN coordinated_groups :
        LET G == coordinated_groups[g]
        IN  /\ G.time_span >= 0
            /\ G.time_span <= time_window
            /\ \A k \in DOMAIN G.posts :
                  /\ data[G.posts[k]].created_utc # NaT
                  /\ data[G.posts[1]].created_utc <= data[G.posts[k]].created_utc

\* a group that spans the whole window was emitted while a later row and a
\* row without a timestamp were among the sorted rows
C28_Witness ==
    /\ Answered
    /\ time_window > 0
    /\ \E g \in DOMAIN coordinated_groups :
          coordinated_groups[g].time_span = time_window
    /\ \E k \in DOMAIN sorted_data : data[sorted_data[k]].created_utc = NaT
    /\ \E k \in DOMAIN sorted_data :
          data[sorted_data[k]].created_utc > time_window

\* C29: in every response total_connections is at most
\* total_authors * (total_authors - 1) / 2, so the density is in [0, 1].
C29_DensityInUnitInterval ==
    Answered =>
        LET m == response.metrics
        IN  /\ 2 * m.total_connections <= m.total_authors * (m.total_authors - 1)
            /\ m.density[2] > 0
            /\ 0 <= m.density[1]
            /\ m.density[1] <= m.density[2]

\* a response whose graph has links but not all of them, with an author
\* that has two posts in one group
C29_Witness ==
    /\ Answered
    /\ 0 < response.metrics.total_connections
    /\ 2 * response.metrics.total_connections
          < response.metrics.total_authors * (response.metrics.total_authors - 1)
    /\ \E g \in DOMAIN response.groups :
          response.groups[g].unique_authors < response.groups[g].size

(* ------------------- the model cache (lines 264-283) ------------------- *)
MAX_CACHE_SIZE == 2

\* bound: the number of times the model loaders are invoked
MaxLoads == 5

\* the names the callers pass
ModelNames == {"m1", "m2", "m3"}

\* model_name in model_cache
InCache(cache, name) == \E k \in DOMAIN cache : cache[k].name = name

\* model_cache[model_name]
CachedModel(cache, name) ==
    cache[CHOOSE k \in DOMAIN cache : cache[k].name = name].model

\* mutant: the entry inserted last is the one removed
newest_key(cache) == cache[Len(cache)].name

\* next(iter(model_cache)): a dict iterates in insertion order
oldest_key(cache) == cache[1].name

\* del model_cache[key]
DelKey(cache, key) == SelectSeq(cache, LAMBDA e : e.name # key)

\* A call of load_model_with_cache whose loader returns. The model a loader
\* returns is a new object, told apart by the number of the invocation.
load_model_with_cache(model_name) ==
    IF InCache(model_cache, model_name)
    THEN /\ cache_call' = [name |-> model_name,
                           model |-> CachedModel(model_cache, model_name),
                           loads |-> cache_call.loads,
                           raised |-> FALSE, evicted |-> "",
                           hits |-> cache_call.hits \cup {model_name},
                           evicted_hit |-> FALSE]
         /\ UNCHANGED model_cache
         /\ UNCHANGED <<data, data_columns, tieBreak, pc, query, time_window,
                        similarity_threshold, sorted_data, pos,
                        processed_indices, coordinated_groups, raised,
                        response, other, earlier, scored>>
    ELSE /\ cache_call.loads < MaxLoads
         /\ LET model == cache_call.loads + 1
                full == Len(model_cache) >= MAX_CACHE_SIZE
                kept == IF full THEN DelKey(model_cache, oldest_key(model_cache))
                        ELSE model_cache
            IN  /\ model_cache' = Append(kept, [name |-> model_name, model |-> model])
                /\ cache_call' = [name |-> model_name, model |-> model,
                                  loads |-> model, raised |-> FALSE,
                                  evicted |-> IF full THEN oldest_key(model_cache)
                                              ELSE "",
                                  hits |-> {},
                                  evicted_hit |->
                                      full /\ oldest_key(model_cache) \in cache_call.hits]
         /\ UNCHANGED <<data, data_columns, tieBreak, pc, query, time_window,
                        similarity_threshold, sorted_data, pos,
                        processed_indices, coordinated_groups, raised,
                        response, other, earlier, scored>>

\* a call for a name that is not cached, whose loader raises (line 274): the
\* exception leaves the function before the cache is touched
load_model_loader_raises(model_name) ==
    /\ ~InCache(model_cache, model_name)
    /\ cache_call.loads < MaxLoads
    /\ cache_call' = [name |-> model_name, model |-> 0,
                      loads |-> cache_call.loads + 1, raised |-> TRUE,
                      evicted |-> "", hits |-> cache_call.hits,
                      evicted_hit |-> FALSE]
    /\ UNCHANGED <<data, data_columns, tieBreak, pc, query, time_window,
                   similarity_threshold, sorted_data, pos, processed_indices,
                   coordinated_groups, raised, response, other, earlier,
                   model_cache, scored>>

InitCache == InitOn({})

NextCache ==
    \/ \E n \in ModelNames : load_model_with_cache(n)
    \/ \E n \in ModelNames : load_model_loader_raises(n)

SpecCache == InitCache /\ [][NextCache]_vars

\* the entry of the cache that was inserted earliest: models are numbered
\* in the order in which they were loaded
EarliestInserted(cache) ==
    CHOOSE e \in SeqToSet(cache) : \A f \in SeqToSet(cache) : e.model <= f.model

\* C30: the cache never holds more than MAX_CACHE_SIZE models; a call for a
\* cached name returns the cached model, invokes no loader and leaves the
\* cache as it is; a call for a new name on a full cache removes exactly
\* the entry that was inserted earliest, whatever was hit in between.
C30_CacheBoundedFifo ==
    /\ [](Len(model_cache) <= MAX_CACHE_SIZE)
    /\ [][cache_call' # cache_call =>
            LET name == cache_call'.name
                hit == \E k \in DOMAIN model_cache : model_cache[k].name = name
                before == SeqToSet(model_cache)
                after == SeqToSet(model_cache')
                new == [name |-> name, model |-> cache_call'.model]
            IN  /\ hit =>
                     /\ model_cache' = model_cache
                     /\ cache_call'.loads = cache_call.loads
                     /\ ~cache_call'.raised
                     /\ new \in before
                /\ (~hit /\ ~cache_call'.raised) =>
                     /\ cache_call'.loads = cache_call.loads + 1
                     /\ new \notin before
                     /\ after = IF Len(model_cache) = MAX_CACHE_SIZE
                                THEN (before \ {EarliestInserted(model_cache)})
                                         \cup {new}
                                ELSE before \cup {new}
                /\ cache_call'.raised => model_cache' = model_cache]_vars

\* a call has just evicted, from a full cache, the entry inserted earliest,
\* which a hit had returned after the other entry was inserted
C30_Witness ==
    /\ Len(model_cache) = MAX_CACHE_SIZE
    /\ cache_call.evicted # ""
    /\ cache_call.evicted_hit
    /\ ~InCache(model_cache, cache_call.evicted)

====
